---- MODULE Spec2Model ----
(***************************************************************************)
(* State-machine model of GPy/core/gp.py, class GP.                        *)
(*                                                                         *)
(* Data matrices have one column (input_dim = output_dim = 1); an N x 1    *)
(* array is the record [ndim |-> 2, v |-> <<row 1, ..., row N>>] and a     *)
(* bare vector is the same with ndim = 1.  Matrices computed by the        *)
(* prediction code are sequences of rows.  Arithmetic is over integers.    *)
(*                                                                         *)
(* The kernel, the likelihood and the inference strategy are collaborators *)
(* of GP whose code is outside gp.py: the kernel is a linear-plus-bias     *)
(* covariance with one hyperparameter, the likelihood's routines are left  *)
(* uninterpreted (a call is recorded with its arguments), and an inference *)
(* call returns any triple of a bounded catalogue or raises.               *)
(***************************************************************************)
EXTENDS Integers, Sequences, FiniteSets, TLC

VARIABLES
    st,                \* "new" (GP.__init__ has not run), "ok", or "failed" (__init__ raised)
    args,              \* the arguments GP.__init__ is called with
    X, Y,              \* self.X, self.Y
    dims,              \* self.num_data, self.input_dim, self.output_dim
    Y_metadata,        \* self.Y_metadata
    kern,              \* self.kern
    likelihood,        \* self.likelihood
    inference_method,  \* self.inference_method
    parameters,        \* parameters registered through add_parameter
    posterior,         \* self.posterior
    log_marginal_likelihood,   \* self._log_marginal_likelihood
    grad_dict,         \* self.grad_dict
    kern_gradient,     \* what kern.update_gradients_full last received
    lik_gradient,      \* what likelihood.update_gradients last received
    calls,             \* collaborator calls (inference, gradient routines) of the last operation
    out                \* the last operation: its name, arguments and outcome

vars == <<st, args, X, Y, dims, Y_metadata, kern, likelihood, inference_method,
          parameters, posterior, log_marginal_likelihood, grad_dict,
          kern_gradient, lik_gradient, calls, out>>

\* The attributes of the GP object and of its collaborators.
model == <<X, Y, dims, Y_metadata, kern, likelihood, inference_method, parameters,
           posterior, log_marginal_likelihood, grad_dict, kern_gradient, lik_gradient>>

-----------------------------------------------------------------------------
\* Bounds of the model.

\* Largest number of training rows.
MaxN == 2

-----------------------------------------------------------------------------
\* Values.

\* Python's None, and an attribute that was never assigned.
None == [tag |-> "None"]
Absent == [tag |-> "absent"]

XVals == {0, 1}
YVals == {1}
KernVariances == {1, 2}

SeqsUpTo(S, n) == UNION {[1..k -> S] : k \in 1..n}

\* Arrays a caller may pass as X or Y: bare vectors and one-column matrices.
ArrayArgs(S) == {[ndim |-> d, v |-> s] : d \in {1, 2}, s \in SeqsUpTo(S, MaxN)}

\* The training sets of the life-cycle specification: n rows b, b+1, ...
\* for X and n equal targets for Y.
TrainX(n, b) == [ndim |-> 2, v |-> [i \in 1..n |-> b + i - 1]]
TrainY(n, c) == [ndim |-> 2, v |-> [i \in 1..n |-> c]]

Kernels == {[cls |-> "Kern", variance |-> v] : v \in KernVariances}
NotAKern == [cls |-> "object"]

LikelihoodKinds == {"Gaussian", "MixedNoise", "Bernoulli"}
Likelihoods == {[cls |-> "Likelihood", kind |-> k] : k \in LikelihoodKinds}
NotALikelihood == [cls |-> "object"]

ExactGaussianInference == [strategy |-> "ExactGaussianInference"]
EP == [strategy |-> "EP"]
CustomInference == [strategy |-> "Custom"]

Metadata == [tag |-> "metadata"]
EmptyDict == [tag |-> "{}"]

\* Inputs of a query: one-column matrices Xnew.
XnewSet == {<<0, 1>>}

-----------------------------------------------------------------------------
\* numpy, on sequences of rows.

RECURSIVE SumSeq(_)
SumSeq(s) == IF Len(s) = 0 THEN 0 ELSE s[1] + SumSeq(Tail(s))

\* A.shape[0]
Rows(A) == Len(A.v)

\* M.T
Transpose(M) == [j \in 1..Len(M[1]) |-> [i \in 1..Len(M) |-> M[i][j]]]

\* np.dot(A, B) of an r x k and a k x c matrix
Dot(A, B) ==
    [i \in 1..Len(A) |-> [j \in 1..Len(B[1]) |->
        SumSeq([k \in 1..Len(B) |-> A[i][k] * B[k][j]])]]

\* np.sum(A * B, 0): the elementwise product summed down the rows
SumProd0(A, B) ==
    [j \in 1..Len(A[1]) |-> SumSeq([i \in 1..Len(A) |-> A[i][j] * B[i][j]])]

\* v.reshape(-1, 1)
Column(v) == [i \in 1..Len(v) |-> <<v[i]>>]

\* m.flatten() of a one-column matrix
Flatten(M) == [i \in 1..Len(M) |-> M[i][1]]

\* np.diag(v): the diagonal matrix of a vector; Diagonal(M): the diagonal of a matrix
Diag(v) == [i \in 1..Len(v) |-> [j \in 1..Len(v) |-> IF i = j THEN v[i] ELSE 0]]
Diagonal(M) == [i \in 1..Len(M) |-> M[i][i]]

-----------------------------------------------------------------------------
\* The kernel: k(a, b) = variance * (a * b + 1).

\* kern.K(A, B); kern.K(A) is K(k, A, A)
K(k, A, B) == [i \in 1..Len(A) |-> [j \in 1..Len(B) |-> k.variance * (A[i] * B[j] + 1)]]

\* kern.Kdiag(A)
Kdiag(k, A) == [i \in 1..Len(A) |-> k.variance * (A[i] * A[i] + 1)]

-----------------------------------------------------------------------------
\* The inference strategy: inference_method.inference(kern, X, likelihood, Y, Y_metadata).

\* What a strategy may return: the diagonal entry a and the off-diagonal entry
\* b of woodbury_inv, the entry c of woodbury_vector per unit of Y, and the
\* log marginal likelihood.
InferenceVariants ==
    { [a |-> 1, b |-> 0,  c |-> 1, lml |-> -2],
      [a |-> 2, b |-> -1, c |-> 1, lml |-> -3] }

\* The Posterior of variant r for n training rows with targets y (y is read
\* cyclically, so that the result is defined for any n and y).
Posterior(r, n, y) ==
    [ woodbury_inv    |-> [i \in 1..n |-> [j \in 1..n |-> IF i = j THEN r.a ELSE r.b]],
      woodbury_vector |-> [i \in 1..n |-> <<r.c * y[((i - 1) % Len(y)) + 1]>>] ]

\* The arguments of an inference call.
InferenceArgs(k, x, lik, y, meta) ==
    [kern |-> k, X |-> x, likelihood |-> lik, Y |-> y, Y_metadata |-> meta]

\* The outcomes of an inference call: it raises, or it returns a Posterior,
\* a log marginal likelihood and a gradient dictionary.  Each of the three
\* carries, in `of`, the call that produced it: the strategy, the arguments
\* and the variant returned.
inference(strategy, k, x, lik, y, meta) ==
    { [raised |-> TRUE, error |-> "LinAlgError"] }
    \cup
    { LET p  == Posterior(r, Rows(x), y.v)
          dK == [i \in 1..Rows(x) |-> [j \in 1..Rows(x) |->
                    p.woodbury_vector[i][1] * p.woodbury_vector[j][1]
                    - p.woodbury_inv[i][j]]]
          of == [ strategy |-> strategy, variant |-> r,
                  with |-> InferenceArgs(k, x, lik, y, meta) ]
      IN  [ raised    |-> FALSE,
            posterior |-> [ of              |-> of,
                            woodbury_inv    |-> p.woodbury_inv,
                            woodbury_vector |-> p.woodbury_vector ],
            lml       |-> [of |-> of, value |-> r.lml],
            grad_dict |-> [ of         |-> of,
                            dL_dK      |-> dK,
                            dL_dthetaL |-> <<SumSeq(Diagonal(dK))>> ] ]
      : r \in InferenceVariants }

-----------------------------------------------------------------------------
\* GP.__init__

\* The source line of the first assert of __init__ that fails, 0 when all
\* pass: X.ndim == 2 (33), Y.ndim == 2 (40), Y.shape[0] == num_data (42),
\* isinstance(kernel, kern.Kern) (47), isinstance(likelihood, Likelihood) (51).
FirstFailedAssert(a) ==
    IF a.X.ndim # 2 THEN 33
    ELSE IF a.Y.ndim # 2 THEN 40
    ELSE IF Rows(a.Y) # Rows(a.X) THEN 42
    ELSE IF a.kernel.cls # "Kern" THEN 47
    ELSE IF a.likelihood.cls # "Likelihood" THEN 51
    ELSE 0

\* "find a sensible inference method"
SensibleInference_GaussianOnly(lik, im) ==
    IF im = None
    THEN IF lik.kind = "Gaussian" THEN ExactGaussianInference ELSE EP
    ELSE im

SensibleInference(lik, im) ==
    IF im = None
    THEN IF lik.kind = "Gaussian" \/ lik.kind = "MixedNoise"
         THEN ExactGaussianInference
         ELSE EP
    ELSE im

\* What __init__ prints.
Printed(lik, im) ==
    IF im = None /\ ~(lik.kind = "Gaussian" \/ lik.kind = "MixedNoise")
    THEN <<"defaulting to ", EP, "for latent function inference">>
    ELSE <<>>

Result(op, a, kind, r) == [op |-> op, args |-> a, kind |-> kind, result |-> r]

\* The methods have no guard of their own: they run on whatever object they
\* are called on, whether __init__ has returned, has raised or has not run.

\* Reading an attribute that was never assigned raises AttributeError.
HasAll(attrs) == \A i \in 1..Len(attrs) : attrs[i] # Absent

\* self.num_data, self.input_dim or self.output_dim has been assigned.
HasDim(name) == dims # Absent /\ name \in DOMAIN dims

Error(err) == [kind |-> "error", result |-> [error |-> err]]

\* The assignments of __init__ run in source order between its asserts: an
\* assert that fails leaves the attributes assigned above it on the object.
__init__ ==
    /\ st = "new"
    /\ LET f       == FirstFailedAssert(args)
           past(l) == f = 0 \/ f > l
       IN  /\ st' = IF f = 0 THEN "ok" ELSE "failed"
           /\ X' = IF past(33) THEN [ndim |-> args.X.ndim, v |-> args.X.v] ELSE X
           /\ Y' = IF past(40) THEN [ndim |-> args.Y.ndim, v |-> args.Y.v] ELSE Y
           /\ dims' = IF past(42)
                      THEN [num_data |-> Rows(args.X), input_dim |-> 1, output_dim |-> 1]
                      ELSE IF past(33)
                           THEN IF HasDim("output_dim")
                                THEN [num_data |-> Rows(args.X), input_dim |-> 1,
                                      output_dim |-> dims.output_dim]
                                ELSE [num_data |-> Rows(args.X), input_dim |-> 1]
                           ELSE dims
           /\ Y_metadata' = IF past(42)
                            THEN IF args.Y_metadata = None THEN EmptyDict
                                 ELSE args.Y_metadata
                            ELSE Y_metadata
           /\ kern' = IF past(47) THEN args.kernel ELSE kern
           /\ likelihood' = IF past(51) THEN args.likelihood ELSE likelihood
           /\ inference_method' =
                 IF f = 0 THEN SensibleInference(args.likelihood, args.inference_method)
                 ELSE inference_method
           /\ parameters' = IF f = 0 THEN <<"kern", "likelihood">> ELSE parameters
           /\ out' = IF f = 0
                     THEN Result("__init__", None, "ok",
                             [printed |-> Printed(args.likelihood, args.inference_method)])
                     ELSE Result("__init__", None, "error", [error |-> "AssertionError"])
    /\ calls' = <<>>
    /\ UNCHANGED <<args, posterior, log_marginal_likelihood, grad_dict,
                   kern_gradient, lik_gradient>>

-----------------------------------------------------------------------------
\* GP.parameters_changed

\* The records of the calls parameters_changed makes.
InferenceCall(r) ==
    [ f        |-> "inference_method.inference",
      args     |-> [ strategy |-> inference_method,
                     with |-> InferenceArgs(kern, X, likelihood, Y, Y_metadata) ],
      returned |-> r ]

\* The two gradient routines, called with the entries of grad dictionary g.
GradientCalls_KernFirst(g) ==
    << [ f |-> "kern.update_gradients_full",
         args |-> [dL_dK |-> g.dL_dK, X |-> X], returned |-> None ],
       [ f |-> "likelihood.update_gradients",
         args |-> [dL_dthetaL |-> g.dL_dthetaL], returned |-> None ] >>

GradientCalls(g) ==
    << [ f |-> "likelihood.update_gradients",
         args |-> [dL_dthetaL |-> g.dL_dthetaL], returned |-> None ],
       [ f |-> "kern.update_gradients_full",
         args |-> [dL_dK |-> g.dL_dK, X |-> X], returned |-> None ] >>

\* The attributes line 67 reads before the inference call is made.
RecomputationReads == <<inference_method, kern, X, likelihood, Y, Y_metadata>>

\* parameters_changed ends with an exception after the calls cs.
Raised(err, cs) ==
    /\ calls' = cs
    /\ out' = Result("parameters_changed", None, "error", [error |-> err])

\* parameters_changed returns, having made the inference call that returned r.
Returned(r) ==
    /\ lik_gradient' = r.grad_dict.dL_dthetaL
    /\ kern_gradient' = [dL_dK |-> r.grad_dict.dL_dK, X |-> X]
    /\ calls' = <<InferenceCall(r)>> \o GradientCalls(r.grad_dict)
    /\ out' = Result("parameters_changed", None, "ok", None)

\* Mutant: the gradient dictionary of the call is used but not stored.
parameters_changed_KeepsGradDict ==
    /\ IF ~HasAll(RecomputationReads)
       THEN /\ Raised("AttributeError", <<>>)
            /\ UNCHANGED <<posterior, log_marginal_likelihood, grad_dict,
                           kern_gradient, lik_gradient>>
       ELSE \E r \in inference(inference_method, kern, X, likelihood, Y, Y_metadata) :
              IF r.raised
              THEN /\ Raised(r.error, <<InferenceCall(r)>>)
                   /\ UNCHANGED <<posterior, log_marginal_likelihood, grad_dict,
                                  kern_gradient, lik_gradient>>
              ELSE /\ posterior' = r.posterior
                   /\ log_marginal_likelihood' = r.lml
                   /\ grad_dict' = grad_dict
                   /\ Returned(r)
    /\ UNCHANGED <<st, args, X, Y, dims, Y_metadata, kern, likelihood,
                   inference_method, parameters>>

\* Mutant: the cached results are dropped before the inference call is made.
parameters_changed_ClearsFirst ==
    /\ IF ~HasAll(RecomputationReads)
       THEN /\ Raised("AttributeError", <<>>)
            /\ UNCHANGED <<posterior, log_marginal_likelihood, grad_dict,
                           kern_gradient, lik_gradient>>
       ELSE \E r \in inference(inference_method, kern, X, likelihood, Y, Y_metadata) :
              IF r.raised
              THEN /\ Raised(r.error, <<InferenceCall(r)>>)
                   /\ posterior' = Absent
                   /\ log_marginal_likelihood' = Absent
                   /\ grad_dict' = Absent
                   /\ UNCHANGED <<kern_gradient, lik_gradient>>
              ELSE /\ posterior' = r.posterior
                   /\ log_marginal_likelihood' = r.lml
                   /\ grad_dict' = r.grad_dict
                   /\ Returned(r)
    /\ UNCHANGED <<st, args, X, Y, dims, Y_metadata, kern, likelihood,
                   inference_method, parameters>>

parameters_changed ==
    /\ IF ~HasAll(RecomputationReads)
       THEN \* an attribute line 67 reads was never assigned
            /\ Raised("AttributeError", <<>>)
            /\ UNCHANGED <<posterior, log_marginal_likelihood, grad_dict,
                           kern_gradient, lik_gradient>>
       ELSE \E r \in inference(inference_method, kern, X, likelihood, Y, Y_metadata) :
              IF r.raised
              THEN \* the exception leaves line 67 before anything is assigned
                   /\ Raised(r.error, <<InferenceCall(r)>>)
                   /\ UNCHANGED <<posterior, log_marginal_likelihood, grad_dict,
                                  kern_gradient, lik_gradient>>
              ELSE /\ posterior' = r.posterior
                   /\ log_marginal_likelihood' = r.lml
                   /\ grad_dict' = r.grad_dict
                   /\ Returned(r)
    /\ UNCHANGED <<st, args, X, Y, dims, Y_metadata, kern, likelihood,
                   inference_method, parameters>>

-----------------------------------------------------------------------------
\* GP.log_likelihood

\* Reading self._log_marginal_likelihood, which __init__ does not assign.
log_likelihood_value ==
    IF log_marginal_likelihood = Absent
    THEN Error("AttributeError")
    ELSE [kind |-> "ok", result |-> [value |-> log_marginal_likelihood.value]]

\* An operation that returns r without writing any attribute.
Answer(op, a, r) ==
    /\ out' = Result(op, a, r.kind, r.result)
    /\ calls' = <<>>
    /\ UNCHANGED <<st, args>>
    /\ UNCHANGED model

log_likelihood == Answer("log_likelihood", None, log_likelihood_value)

-----------------------------------------------------------------------------
\* GP._raw_predict and the queries built on it

\* Reading self.kern, self.X (line 84) or self.posterior (line 86), which
\* __init__ does not assign, raises AttributeError; np.dot (line 86) raises
\* ValueError when woodbury_inv has not one column per row of X.
_raw_predict(Xnew, full_cov) ==
    IF ~HasAll(<<kern, X, posterior>>)
    THEN Error("AttributeError")
    ELSE IF Len(posterior.woodbury_inv) # Rows(X)
    THEN Error("ValueError")
    ELSE LET Kx   == Transpose(K(kern, Xnew, X.v))
             WiKx == Dot(posterior.woodbury_inv, Kx)
             mu   == Dot(Transpose(Kx), posterior.woodbury_vector)
             Kxx  == Kdiag(kern, Xnew)
             var  == IF full_cov
                     THEN Dot(Transpose(Kx), WiKx)
                     ELSE Column([j \in 1..Len(Xnew) |-> Kxx[j] - SumProd0(WiKx, Kx)[j]])
         IN  [kind |-> "ok", result |-> [mu |-> mu, var |-> var]]

QueryArgs(Xnew, full_cov) == [X |-> Xnew, full_cov |-> full_cov]

\* A direct call of _raw_predict.
raw_predict(Xnew, full_cov) ==
    Answer("_raw_predict", QueryArgs(Xnew, full_cov), _raw_predict(Xnew, full_cov))

\* predict(Xnew, full_cov, Y_metadata=None)
predict_value(Xnew, full_cov) ==
    LET r == _raw_predict(Xnew, full_cov)
    IN  IF r.kind = "error" THEN r
        ELSE IF likelihood = Absent THEN Error("AttributeError")
        ELSE [ kind   |-> "ok",
               result |-> [ f    |-> "likelihood.predictive_values",
                            args |-> [ mu |-> r.result.mu, var |-> r.result.var,
                                       full_cov |-> full_cov, Y_metadata |-> None ] ] ]

\* Mutant: the Y_metadata argument of the call replaces the model's.
predict_StoresMetadata(Xnew, full_cov) ==
    /\ out' = Result("predict", QueryArgs(Xnew, full_cov),
                     predict_value(Xnew, full_cov).kind, predict_value(Xnew, full_cov).result)
    /\ calls' = <<>>
    /\ Y_metadata' = None
    /\ UNCHANGED <<st, args, X, Y, dims, kern, likelihood, inference_method,
                   parameters, posterior, log_marginal_likelihood, grad_dict,
                   kern_gradient, lik_gradient>>

predict(Xnew, full_cov) ==
    Answer("predict", QueryArgs(Xnew, full_cov), predict_value(Xnew, full_cov))

\* predict_quantiles(X, quantiles=(2.5, 97.5), Y_metadata=None)
predict_quantiles_value(Xnew) ==
    LET r == _raw_predict(Xnew, FALSE)
    IN  IF r.kind = "error" THEN r
        ELSE IF likelihood = Absent THEN Error("AttributeError")
        ELSE [ kind   |-> "ok",
               result |-> [ f    |-> "likelihood.predictive_quantiles",
                            args |-> [ m |-> r.result.mu, v |-> r.result.var,
                                       quantiles |-> <<"2.5", "97.5">>,
                                       Y_metadata |-> None ] ] ]

predict_quantiles(Xnew) ==
    Answer("predict_quantiles", QueryArgs(Xnew, FALSE), predict_quantiles_value(Xnew))

\* The default number of samples.
DefaultSize == 10

\* posterior_samples_f(X, size=10, full_cov): a draw of `size` samples, named
\* by the distribution np.random.multivariate_normal is asked to sample.
posterior_samples_f_value(Xnew, full_cov) ==
    LET r == _raw_predict(Xnew, full_cov)
    IN  IF r.kind = "error" THEN r
        ELSE [ kind   |-> "ok",
               result |-> [ f    |-> "np.random.multivariate_normal(...).T",
                            args |-> [ mean |-> Flatten(r.result.mu),
                                       cov  |-> IF full_cov
                                                THEN r.result.var
                                                ELSE Diag(Flatten(r.result.var)),
                                       size |-> DefaultSize ] ] ]

posterior_samples_f(Xnew, full_cov) ==
    Answer("posterior_samples_f", QueryArgs(Xnew, full_cov),
           posterior_samples_f_value(Xnew, full_cov))

\* posterior_samples(X, size=10, full_cov, Y_metadata=None)
posterior_samples_value(Xnew, full_cov) ==
    LET r == posterior_samples_f_value(Xnew, full_cov)
    IN  IF r.kind = "error" THEN r
        ELSE IF likelihood = Absent THEN Error("AttributeError")
        ELSE [ kind   |-> "ok",
               result |-> [ f    |-> "likelihood.samples",
                            args |-> [Ysim |-> r.result, Y_metadata |-> None] ] ]

posterior_samples(Xnew, full_cov) ==
    Answer("posterior_samples", QueryArgs(Xnew, full_cov),
           posterior_samples_value(Xnew, full_cov))

QueryOps == {"_raw_predict", "predict", "predict_quantiles",
             "posterior_samples_f", "posterior_samples"}

-----------------------------------------------------------------------------
\* Changes made from outside the class: a kernel hyperparameter is set, or
\* X is reassigned to another array of the same shape.  gp.py has no
\* code that runs when they happen.

Mutated(op, a) ==
    /\ out' = Result(op, a, "ok", None)
    /\ calls' = <<>>
    /\ UNCHANGED <<st, args, Y, dims, Y_metadata, likelihood, inference_method,
                   parameters, posterior, log_marginal_likelihood, grad_dict,
                   kern_gradient, lik_gradient>>

set_kern_variance(v) ==
    /\ kern # Absent
    /\ v # kern.variance
    /\ kern' = [kern EXCEPT !.variance = v]
    /\ UNCHANGED X
    /\ Mutated("set_kern_variance", [variance |-> v])

set_X(b) ==
    /\ X # Absent
    /\ TrainX(Rows(X), b) # X
    /\ X' = TrainX(Rows(X), b)
    /\ UNCHANGED kern
    /\ Mutated("set_X", [X |-> TrainX(Rows(X), b)])

-----------------------------------------------------------------------------
\* GP._getstate and GP._setstate.  A state list is what Model._getstate
\* returns followed by X, num_data, input_dim, kern, likelihood and
\* output_dim.  Model._getstate and Model._setstate are outside gp.py: the
\* first is a call that returns the Model part of the list, the second a call
\* that receives it, and neither writes an attribute of this model.

ModelState == [tag |-> "Model state"]

\* The list _getstate returns; an attribute that was never assigned raises.
getstate_value ==
    IF ~(/\ HasAll(<<X, kern, likelihood>>)
         /\ HasDim("num_data") /\ HasDim("input_dim") /\ HasDim("output_dim"))
    THEN Error("AttributeError")
    ELSE [ kind   |-> "ok",
           result |-> [state |-> <<ModelState, X, dims.num_data, dims.input_dim,
                                   kern, likelihood, dims.output_dim>>] ]

_getstate ==
    /\ out' = Result("_getstate", None, getstate_value.kind, getstate_value.result)
    /\ calls' = << [f |-> "Model._getstate", args |-> None, returned |-> ModelState] >>
    /\ UNCHANGED <<st, args>>
    /\ UNCHANGED model

\* The lists _setstate is given: those _getstate returns on the models of
\* MaxN rows or fewer, whatever model _setstate is then called on.
SavedStates ==
    { <<ModelState, TrainX(n, b), n, 1, k, lik, 1>> :
        n \in 1..MaxN, b \in XVals, k \in Kernels,
        lik \in {l \in Likelihoods : l.kind \in {"Gaussian", "Bernoulli"}} }

\* _setstate pops output_dim, likelihood, kern, input_dim, num_data and X from
\* the end of the list and hands the rest to Model._setstate.  It runs on any
\* object, one on which __init__ never ran included; Y, Y_metadata, the
\* strategy and the cached results are not touched.
_setstate(state) ==
    /\ dims' = [num_data |-> state[3], input_dim |-> state[4], output_dim |-> state[7]]
    /\ likelihood' = state[6]
    /\ kern' = state[5]
    /\ X' = state[2]
    /\ out' = Result("_setstate", [state |-> state], "ok", None)
    /\ calls' = << [f |-> "Model._setstate", args |-> [state |-> <<state[1]>>],
                    returned |-> None] >>
    /\ UNCHANGED <<st, args, Y, Y_metadata, inference_method, parameters, posterior,
                   log_marginal_likelihood, grad_dict, kern_gradient, lik_gradient>>

-----------------------------------------------------------------------------
\* Specifications.

\* Before __init__ runs nothing is assigned.
Unconstructed ==
    /\ st = "new"
    /\ X = Absent /\ Y = Absent /\ dims = Absent /\ Y_metadata = Absent
    /\ kern = Absent /\ likelihood = Absent /\ inference_method = Absent
    /\ parameters = <<>>
    /\ posterior = Absent /\ log_marginal_likelihood = Absent /\ grad_dict = Absent
    /\ kern_gradient = Absent /\ lik_gradient = Absent
    /\ calls = <<>>
    /\ out = Result("none", None, "ok", None)

\* The life cycle of an object: it is built from well-formed arguments, or
\* made without __init__ and handed a state list.
Init ==
    /\ Unconstructed
    /\ \E n \in 1..MaxN, c \in YVals :
         args = [ X |-> TrainX(n, 0), Y |-> TrainY(n, c),
                  kernel |-> [cls |-> "Kern", variance |-> 1],
                  likelihood |-> [cls |-> "Likelihood", kind |-> "Gaussian"],
                  inference_method |-> None, Y_metadata |-> None ]

Next ==
    \/ __init__
    \/ parameters_changed
    \/ log_likelihood
    \/ \E Xnew \in XnewSet, full_cov \in BOOLEAN : raw_predict(Xnew, full_cov)
    \/ \E Xnew \in XnewSet, full_cov \in BOOLEAN : predict(Xnew, full_cov)
    \/ \E Xnew \in XnewSet : predict_quantiles(Xnew)
    \/ \E Xnew \in XnewSet, full_cov \in BOOLEAN : posterior_samples_f(Xnew, full_cov)
    \/ \E Xnew \in XnewSet, full_cov \in BOOLEAN : posterior_samples(Xnew, full_cov)
    \/ \E v \in KernVariances : set_kern_variance(v)
    \/ \E b \in XVals : set_X(b)
    \/ _getstate
    \/ \E state \in SavedStates : _setstate(state)

Spec == Init /\ [][Next]_vars

\* Construction from any arguments, with recomputations and reads of the
\* likelihood before and after it, also on an object whose __init__ raised.
InitAny ==
    /\ Unconstructed
    /\ args \in [ X : ArrayArgs(XVals), Y : ArrayArgs(YVals),
                  kernel : Kernels \cup {NotAKern},
                  likelihood : Likelihoods \cup {NotALikelihood},
                  inference_method : {None, ExactGaussianInference, EP, CustomInference},
                  Y_metadata : {None, Metadata} ]

NextAny ==
    \/ __init__
    \/ parameters_changed
    \/ log_likelihood

SpecAny == InitAny /\ [][NextAny]_vars

-----------------------------------------------------------------------------
\* Properties.

\* The arguments an inference call made now would receive.
CurrentArgs == InferenceArgs(kern, X, likelihood, Y, Y_metadata)

\* The stored Posterior was computed by the model's strategy from the current
\* kernel, X, likelihood, Y and Y_metadata.
Fresh ==
    /\ posterior # Absent
    /\ posterior.of.strategy = inference_method
    /\ posterior.of.with = CurrentArgs

\* The model was constructed from mismatched shapes.
BadShapes == args.X.ndim # 2 \/ args.Y.ndim # 2 \/ Len(args.X.v) # Len(args.Y.v)

\* C1 (as claimed): a query is never answered while stale; after any query
\* (_raw_predict, predict, predict_quantiles, posterior_samples_f,
\* posterior_samples) the answer is a value computed from a Posterior that
\* reflects the current kernel, likelihood, X and Y, a recomputation having
\* been triggered first where needed.
C1_NeverServesStale ==
    (st = "ok" /\ out.op \in QueryOps) => (out.kind = "ok" /\ Fresh)

\* C2 (as claimed): log_likelihood() returns the cached log marginal
\* likelihood, and on a model on which no recomputation has completed it
\* fails with a StaleStateError and with no other error.
C2_LogLikelihoodOrStaleStateError ==
    (st = "ok" /\ out.op = "log_likelihood") =>
        IF log_marginal_likelihood = Absent
        THEN out.kind = "error" /\ out.result = [error |-> "StaleStateError"]
        ELSE out.kind = "ok" /\ out.result = [value |-> log_marginal_likelihood.value]

\* C3 (as claimed): construction with X and Y of different row counts, or
\* with X or Y not two-dimensional, fails eagerly with a ShapeMismatchError:
\* __init__ ends with that error before anything is computed or called, it
\* never returns normally, and every constructed model has two-dimensional X
\* and Y with X.rows = Y.rows = num_data.
C3_ShapeMismatchError ==
    /\ (out.op = "__init__" /\ BadShapes) =>
          /\ out.kind = "error"
          /\ out.result = [error |-> "ShapeMismatchError"]
          /\ posterior = Absent /\ calls = <<>>
    /\ BadShapes => st # "ok"
    /\ st = "ok" =>
          /\ X.ndim = 2 /\ Y.ndim = 2
          /\ Len(X.v) = Len(Y.v)
          /\ dims.num_data = Len(X.v)

\* C4: the Posterior, the log marginal likelihood and the gradient
\* dictionary held by the model are all absent or all the results of one and
\* the same inference call.
C4_TripleFromOneCall ==
    IF posterior = Absent
    THEN log_marginal_likelihood = Absent /\ grad_dict = Absent
    ELSE /\ log_marginal_likelihood # Absent
         /\ grad_dict # Absent
         /\ log_marginal_likelihood.of = posterior.of
         /\ grad_dict.of = posterior.of

\* C4 witness: a recomputation has failed after an earlier one succeeded and
\* _setstate replaced X by an array of another row count in between.
C4_Witness ==
    /\ out.op = "parameters_changed" /\ out.kind = "error"
    /\ posterior # Absent
    /\ Rows(posterior.of.with.X) # Rows(X)

\* C5: a recomputation whose inference call returns makes exactly three
\* calls: the model's strategy with the current kernel, X, likelihood, Y and
\* Y_metadata, whose Posterior and log marginal likelihood are stored; then
\* likelihood.update_gradients with dL_dthetaL; then
\* kern.update_gradients_full with dL_dK and X.
C5_RecomputationCalls ==
    (out.op = "parameters_changed" /\ out.kind = "ok") =>
        /\ Len(calls) = 3
        /\ calls[1].f = "inference_method.inference"
        /\ calls[1].args = [strategy |-> inference_method, with |-> CurrentArgs]
        /\ posterior = calls[1].returned.posterior
        /\ log_marginal_likelihood = calls[1].returned.lml
        /\ calls[2].f = "likelihood.update_gradients"
        /\ calls[2].args = [dL_dthetaL |-> calls[1].returned.grad_dict.dL_dthetaL]
        /\ lik_gradient = calls[1].returned.grad_dict.dL_dthetaL
        /\ calls[3].f = "kern.update_gradients_full"
        /\ calls[3].args = [dL_dK |-> calls[1].returned.grad_dict.dL_dK, X |-> X]
        /\ kern_gradient = [dL_dK |-> calls[1].returned.grad_dict.dL_dK, X |-> X]

\* C5 witness: a recomputation has succeeded on an X that was reassigned
\* after construction.
C5_Witness ==
    /\ out.op = "parameters_changed" /\ out.kind = "ok"
    /\ Len(calls) = 3
    /\ X.v # args.X.v
    /\ posterior.of.with.X = X

\* C6: with no strategy supplied the model takes ExactGaussianInference for
\* a Gaussian or MixedNoise likelihood and EP for any other; a supplied
\* strategy is taken unchanged; the choice is stored in inference_method and
\* is the strategy every recomputation calls.
C6_StrategySelection ==
    st = "ok" =>
        LET chosen == IF args.inference_method # None THEN args.inference_method
                      ELSE IF args.likelihood.kind \in {"Gaussian", "MixedNoise"}
                           THEN ExactGaussianInference
                           ELSE EP
        IN  /\ inference_method = chosen
            /\ out.op = "parameters_changed" => calls[1].args.strategy = chosen
            /\ posterior # Absent => posterior.of.strategy = chosen

\* C6 witness: a MixedNoise model built without a strategy has recomputed
\* with exact Gaussian inference.
C6_Witness ==
    /\ st = "ok"
    /\ args.inference_method = None
    /\ args.likelihood.kind = "MixedNoise"
    /\ out.op = "parameters_changed" /\ out.kind = "ok"
    /\ calls[1].args.strategy = ExactGaussianInference

\* C7 (as claimed): for every Xnew the diagonal of the covariance of
\* _raw_predict(Xnew, full_cov=True) is the variance of
\* _raw_predict(Xnew, full_cov=False), and the means are equal.
C7_DiagonalAgreement ==
    \A Xnew \in XnewSet :
        _raw_predict(Xnew, TRUE).kind = "ok" =>
            LET full == _raw_predict(Xnew, TRUE).result
                diag == _raw_predict(Xnew, FALSE).result
            IN  /\ full.mu = diag.mu
                /\ Column(Diagonal(full.var)) = diag.var

\* C8 (as claimed): the variances _raw_predict(Xnew, full_cov=False)
\* returns are never negative.
C8_VarianceNonNegative ==
    \A Xnew \in XnewSet :
        _raw_predict(Xnew, FALSE).kind = "ok" =>
            \A j \in 1..Len(Xnew) : _raw_predict(Xnew, FALSE).result.var[j][1] >= 0

\* C9: a step that answers _raw_predict, predict or predict_quantiles
\* leaves every attribute of the model and of its collaborators unchanged,
\* and when it repeats the preceding query it returns the same result.
C9_QueriesArePure ==
    [][ out'.op \in {"_raw_predict", "predict", "predict_quantiles"} =>
            /\ model' = model
            /\ (out.op = out'.op /\ out.args = out'.args) => out' = out ]_vars

\* C9 witness: predict has answered from a stored Posterior.
C9_Witness ==
    /\ out.op = "predict" /\ out.kind = "ok"
    /\ posterior # Absent

\* C10: a recomputation whose inference call raises hands the error to the
\* caller, calls neither gradient routine and leaves the Posterior, the log
\* marginal likelihood and the gradient dictionary as they were.
C10_FailedInferenceKeepsCache ==
    [][ (/\ out'.op = "parameters_changed"
         /\ Len(calls') > 0
         /\ calls'[1].f = "inference_method.inference"
         /\ calls'[1].returned.raised) =>
            /\ out'.kind = "error"
            /\ out'.result = [error |-> calls'[1].returned.error]
            /\ Len(calls') = 1
            /\ posterior' = posterior
            /\ log_marginal_likelihood' = log_marginal_likelihood
            /\ grad_dict' = grad_dict
            /\ kern_gradient' = kern_gradient /\ lik_gradient' = lik_gradient ]_vars

\* C10 witness: a recomputation has failed on a model that holds the triple
\* of an earlier, successful one.
C10_Witness ==
    /\ out.op = "parameters_changed" /\ out.kind = "error"
    /\ posterior # Absent /\ log_marginal_likelihood # Absent /\ grad_dict # Absent
    /\ Len(calls) = 1 /\ calls[1].returned.raised

====
